---- MODULE Spec2Model ----
(***************************************************************************)
(* GIS Layer Viewer (src/app.py): the layer loader, its three st.cache_data *)
(* memo tables, the Debug Trace kept in st.session_state, the load button  *)
(* handler and the attribute filter block.                                 *)
(*                                                                         *)
(* Python strings are sequences of one-character strings, so rstrip,       *)
(* lower, endswith, "in" and concatenation are computed, not assumed.      *)
(***************************************************************************)
EXTENDS Integers, Sequences, FiniteSets, TLC

VARIABLES pc, args, query_url, obj, gdf, err, debug,
          url_cache, gdf_cache, layer_cache,
          ui, filtered, widgets, loads, http_log, steps, last_built

vars == <<pc, args, query_url, obj, gdf, err, debug,
          url_cache, gdf_cache, layer_cache,
          ui, filtered, widgets, loads, http_log, steps, last_built>>

----------------------------------------------------------------------------
(* Bounds of the model *)

\* load button clicks in one session
MaxLoads == 2
\* direct calls of load_layer over its whole signature
MaxCalls == 1
\* features of a document handed to the normalizer / rows of a filtered table
MaxRows == 3

----------------------------------------------------------------------------
(* Python str operations *)

\* Python None, as a value no character sequence equals
None == <<"<None>">>

\* `not s` for s: str | None
Falsy(s) == s = None \/ s = <<>>

UpperCase == <<"A","B","C","D","E","F","G","H","I","J","K","L","M","N","O","P","Q","R","S","T","U","V","W","X","Y","Z">>
LowerCase == <<"a","b","c","d","e","f","g","h","i","j","k","l","m","n","o","p","q","r","s","t","u","v","w","x","y","z">>

lower_char(c) ==
    IF \E i \in 1..Len(UpperCase) : UpperCase[i] = c
    THEN LowerCase[CHOOSE i \in 1..Len(UpperCase) : UpperCase[i] = c]
    ELSE c

\* str.lower()
lower(s) == [i \in 1..Len(s) |-> lower_char(s[i])]

\* str.rstrip(c): every trailing c is removed
RECURSIVE rstrip(_, _)
rstrip(s, c) ==
    IF Len(s) > 0 /\ s[Len(s)] = c THEN rstrip(SubSeq(s, 1, Len(s) - 1), c) ELSE s

\* str.endswith(suffix)
endswith(s, suffix) ==
    /\ Len(suffix) <= Len(s)
    /\ SubSeq(s, Len(s) - Len(suffix) + 1, Len(s)) = suffix

\* c in s, for a one-character c
contains(s, c) == \E i \in 1..Len(s) : s[i] = c

\* sep.join(parts)
RECURSIVE join(_, _)
join(sep, parts) ==
    IF Len(parts) = 0 THEN <<>>
    ELSE IF Len(parts) = 1 THEN parts[1]
    ELSE parts[1] \o sep \o join(sep, Tail(parts))

----------------------------------------------------------------------------
(* String literals of the source *)

S_featureserver == <<"/","f","e","a","t","u","r","e","s","e","r","v","e","r">>
S_arcgis_query == <<"/","q","u","e","r","y","?","w","h","e","r","e","=","1","%","3","D","1","&","o","u","t","F","i","e","l","d","s","=","*","&","f","=","g","e","o","j","s","o","n","&","o","u","t","S","R","=","4","3","2","6","&","r","e","t","u","r","n","G","e","o","m","e","t","r","y","=","t","r","u","e">>
S_service == <<"s","e","r","v","i","c","e">>
S_WFS == <<"W","F","S">>
S_version == <<"v","e","r","s","i","o","n">>
S_2_0_0 == <<"2",".","0",".","0">>
S_request == <<"r","e","q","u","e","s","t">>
S_GetFeature == <<"G","e","t","F","e","a","t","u","r","e">>
S_typeName == <<"t","y","p","e","N","a","m","e">>
S_outputFormat == <<"o","u","t","p","u","t","F","o","r","m","a","t">>
S_application_json == <<"a","p","p","l","i","c","a","t","i","o","n","/","j","s","o","n">>
S_srsName == <<"s","r","s","N","a","m","e">>
S_EPSG_4326 == <<"E","P","S","G",":","4","3","2","6">>

GeoJSON == "GeoJSON"
ArcGIS == "ArcGIS FeatureServer"
OGCWFS == "OGC WFS"

\* exception messages; NoErr: no exception in flight
NoErr == "no exception"
MissingLayerId == "ArcGIS FeatureServer base URL provided. Please specify layer ID (e.g., 0)."
MissingTypename == "WFS requires a typename (layer name)."
UnsupportedSource == "Unsupported source type."
HTTPError == "requests.HTTPError"
Timeout == "requests.Timeout"
NormalizationError == "exception raised while building the GeoDataFrame"

----------------------------------------------------------------------------
(* Input domains *)

S_https_x == <<"h","t","t","p","s",":","/","/","x">>
S_FeatureServer == <<"/","F","e","a","t","u","r","e","S","e","r","v","e","r">>
S_FEATURESERVER == <<"/","F","E","A","T","U","R","E","S","E","R","V","E","R">>
S_wfs == <<"/","w","f","s">>
S_countries == <<"c","o","u","n","t","r","i","e","s">>

U_root == S_https_x \o S_FeatureServer
U_ROOT_slashes == S_https_x \o S_FEATURESERVER \o <<"/","/">>
U_layer == S_https_x \o S_FeatureServer \o <<"/","3">>
U_layer_slash == S_https_x \o S_FeatureServer \o <<"/","3","/">>
U_wfs_q == S_https_x \o S_wfs \o <<"?">>
U_wfs == S_https_x \o S_wfs

\* what the user types into "Layer URL"
Urls == {U_root, U_layer, U_wfs_q}
\* URLs load_layer is called with directly
CallUrls == {U_root, U_ROOT_slashes, U_layer_slash, U_wfs_q, U_wfs}

\* what the user types into "Layer ID" and "WFS typename"
LayerIdInputs == {<<>>, <<"3">>}
TypenameInputs == {<<>>, S_countries}

\* the selectbox options
SourceTypes == {GeoJSON, ArcGIS, OGCWFS}

----------------------------------------------------------------------------
(* Data model: attribute values, features, JSON documents, GeoDataFrames *)

\* one attribute value of a feature: a number, a string or null
Vnull == [t |-> "null", n |-> 0, s |-> ""]
Vnum(k) == [t |-> "num", n |-> k, s |-> ""]
Vstr(x) == [t |-> "str", n |-> 0, s |-> x]

\* a feature: its geometry ("null", "empty" or a shape) and its attribute "val"
Row(g, v) == [geometry |-> g, val |-> v]

CRS_none == "none"
EPSG4326 == "EPSG:4326"
EPSG3857 == "EPSG:3857"

\* a parsed JSON body: geo = it can be read as a geospatial document,
\* has_features = it has a "features" key, crs = the CRS the document declares
Json(geo, has_features, crs, rows) ==
    [tag |-> "json", geo |-> geo, has_features |-> has_features, crs |-> crs, rows |-> rows]
NoObj == [tag |-> "none", geo |-> FALSE, has_features |-> FALSE, crs |-> CRS_none, rows |-> <<>>]

\* a GeoDataFrame: transformed = its coordinates were reprojected by to_crs
Gdf(crs, transformed, rows) ==
    [tag |-> "gdf", crs |-> crs, transformed |-> transformed, rows |-> rows]
NoGdf == [tag |-> "none", crs |-> CRS_none, transformed |-> FALSE, rows |-> <<>>]
\* the marker of a call that raised instead of returning a GeoDataFrame
RaisedGdf == [tag |-> "raised", crs |-> CRS_none, transformed |-> FALSE, rows |-> <<>>]

\* bodies the remote server answers with
FC_null_and_two ==
    Json(TRUE, TRUE, CRS_none,
         <<Row("null", Vnum(1)), Row("Polygon", Vnum(2)), Row("Polygon", Vstr("a"))>>)
FC_empty == Json(TRUE, TRUE, CRS_none, <<>>)
Doc_3857 == Json(TRUE, FALSE, EPSG3857, <<Row("Polygon", Vnum(1))>>)
NotGeo == Json(FALSE, FALSE, CRS_none, <<>>)
Bodies == {FC_null_and_two, FC_empty, Doc_3857, NotGeo}

\* what one HTTP GET can end in: a 2xx JSON body, a non-2xx status, a timeout
Responses ==
    [ok : {TRUE}, body : Bodies, reason : {NoErr}]
    \cup [ok : {FALSE}, body : {NoObj}, reason : {HTTPError, Timeout}]

\* sequences over S of length 0..n
BoundedSeq(S, n) == UNION {[1..k -> S] : k \in 0..n}

\* documents handed to the normalizer
Geometries == {"null", "empty", "Polygon"}
NormRows == {Row(g, v) : g \in Geometries, v \in {Vnum(1), Vstr("a")}}
Objs == {Json(TRUE, hf, c, rows) :
            hf \in BOOLEAN, c \in {CRS_none, EPSG4326, EPSG3857},
            rows \in BoundedSeq(NormRows, MaxRows)}

----------------------------------------------------------------------------
(* st.cache_data memo tables: sets of <<key, value>> pairs *)

Has(cache, k) == \E e \in cache : e[1] = k
Get(cache, k) == (CHOOSE e \in cache : e[1] = k)[2]
Put(cache, k, v) == {e \in cache : e[1] # k} \cup {<<k, v>>}

----------------------------------------------------------------------------
(* load_layer: parameter checks and query URL construction *)

\* base_url with a single trailing slash removed instead of all of them
base_url_one_slash(url) ==
    IF Len(url) > 0 /\ url[Len(url)] = "/" THEN SubSeq(url, 1, Len(url) - 1) ELSE url

base_url(url) == rstrip(url, "/")

is_featureserver_root(url) == endswith(lower(base_url(url)), S_featureserver)

layer_url(url, layer_id) ==
    IF is_featureserver_root(url)
    THEN base_url(url) \o <<"/">> \o layer_id
    ELSE base_url(url)

arcgis_query_url(url, layer_id) == layer_url(url, layer_id) \o S_arcgis_query

wfs_params(typename) ==
    << <<S_service, S_WFS>>, <<S_version, S_2_0_0>>, <<S_request, S_GetFeature>>,
       <<S_typeName, typename>>, <<S_outputFormat, S_application_json>>,
       <<S_srsName, S_EPSG_4326>> >>

\* wfs_sep that never looks for a question mark in the URL
wfs_sep_always_question(url) == <<"?">>

wfs_sep(url) == IF contains(url, "?") THEN <<"&">> ELSE <<"?">>

wfs_query_url(url, typename) ==
    LET params == wfs_params(typename)
    IN  url \o wfs_sep(url)
            \o join(<<"&">>, [i \in 1..Len(params) |-> params[i][1] \o <<"=">> \o params[i][2]])

\* load_layer_raises with `is None` tests in place of `not`
load_layer_raises_none_only(a) ==
    IF a.source_type = GeoJSON THEN NoErr
    ELSE IF a.source_type = ArcGIS
    THEN IF is_featureserver_root(a.url) /\ a.layer_id = None THEN MissingLayerId ELSE NoErr
    ELSE IF a.source_type = OGCWFS
    THEN IF a.typename = None THEN MissingTypename ELSE NoErr
    ELSE UnsupportedSource

\* the exception load_layer raises before any request, or NoErr
load_layer_raises(a) ==
    IF a.source_type = GeoJSON THEN NoErr
    ELSE IF a.source_type = ArcGIS
    THEN IF is_featureserver_root(a.url) /\ Falsy(a.layer_id) THEN MissingLayerId ELSE NoErr
    ELSE IF a.source_type = OGCWFS
    THEN IF Falsy(a.typename) THEN MissingTypename ELSE NoErr
    ELSE UnsupportedSource

\* the URL load_layer passes to load_geojson_from_url
load_layer_query_url(a) ==
    IF a.source_type = GeoJSON THEN a.url
    ELSE IF a.source_type = ArcGIS THEN arcgis_query_url(a.url, a.layer_id)
    ELSE wfs_query_url(a.url, a.typename)

\* st.session_state["_debug"]
NoUrl == None
EmptyDebug == [arcgis_query_url |-> NoUrl, wfs_query_url |-> NoUrl]

record_debug(d, source_type, url) ==
    IF source_type = ArcGIS THEN [d EXCEPT !.arcgis_query_url = url]
    ELSE IF source_type = OGCWFS THEN [d EXCEPT !.wfs_query_url = url]
    ELSE d

----------------------------------------------------------------------------
(* load_gdf_from_geojson_obj *)

\* GeoDataFrame.from_features(obj["features"]): no CRS is attached
from_features(o) == Gdf(CRS_none, FALSE, o.rows)
\* gpd.read_file(...): the CRS is the document's
read_file(o) == Gdf(o.crs, FALSE, o.rows)

parse_obj(o) == IF o.has_features THEN from_features(o) ELSE read_file(o)

gdf_empty(g) == Len(g.rows) = 0

set_crs(g) == [g EXCEPT !.crs = EPSG4326]
to_crs(g) == IF g.crs = EPSG4326 THEN g ELSE [g EXCEPT !.crs = EPSG4326, !.transformed = TRUE]

\* whether to_crs can raise on this frame: a reprojection between two CRSs can
to_crs_outcomes(g) == IF g.crs \in {CRS_none, EPSG4326} THEN {TRUE} ELSE BOOLEAN

\* is_valid_geometry without the is_empty test
is_valid_geometry_notnull_only(r) == r.geometry # "null"

is_valid_geometry(r) == r.geometry # "empty" /\ r.geometry # "null"

drop_invalid(g) == [g EXCEPT !.rows = SelectSeq(g.rows, is_valid_geometry)]

\* the body of the try block; reproj_ok = to_crs did not raise
normalize_crs(g, reproj_ok) ==
    IF g.crs = CRS_none THEN set_crs(g)
    ELSE IF reproj_ok THEN to_crs(g)
    ELSE g

load_gdf_from_geojson_obj(o, reproj_ok) ==
    LET g == parse_obj(o)
    IN  IF gdf_empty(g) THEN g
        ELSE drop_invalid(normalize_crs(g, reproj_ok))

\* every result one call can have, the memo table consulted first
normalize_outcomes(cache, o) ==
    IF Has(cache, o) THEN {Get(cache, o)}
    ELSE IF ~o.geo THEN {RaisedGdf}
    ELSE {load_gdf_from_geojson_obj(o, ok) : ok \in to_crs_outcomes(parse_obj(o))}

----------------------------------------------------------------------------
(* The attribute filter block *)

NoFilter == "(no filter)"
Digits == <<"0","1","2","3","4","5","6","7","8","9">>

\* the widget values of a first render: selectbox index 0
DefaultWidgets == [filter_col |-> NoFilter, vmin |-> 0, vmax |-> 0, chosen |-> {}]

column(rows) == {rows[i].val : i \in 1..Len(rows)}

\* pd.api.types.is_numeric_dtype: numbers, possibly with missing values (NaN)
is_numeric_dtype(rows) ==
    /\ \A v \in column(rows) : v.t \in {"num", "null"}
    /\ \E v \in column(rows) : v.t = "num"

numbers(rows) == {v.n : v \in {w \in column(rows) : w.t = "num"}}
column_min(rows) == CHOOSE m \in numbers(rows) : \A k \in numbers(rows) : m <= k
column_max(rows) == CHOOSE m \in numbers(rows) : \A k \in numbers(rows) : m >= k

\* str(value), as astype(str) and map(str, ...) compute it
astype_str(v) ==
    IF v.t = "num" THEN Digits[v.n + 1]
    ELSE IF v.t = "str" THEN v.s
    ELSE "None"

\* the multiselect options: the distinct non-null values, as strings
multiselect_options(rows) == {astype_str(v) : v \in {w \in column(rows) : w.t # "null"}}

\* in_range without the upper bound
in_range_lower_only(v, vmin, vmax) == v.t = "num" /\ v.n >= vmin

\* the comparison a missing value (NaN) never satisfies
in_range(v, vmin, vmax) == v.t = "num" /\ v.n >= vmin /\ v.n <= vmax

apply_filter(rows, w) ==
    IF w.filter_col = NoFilter THEN rows
    ELSE IF is_numeric_dtype(rows)
    THEN LET keep(r) == in_range(r.val, w.vmin, w.vmax) IN SelectSeq(rows, keep)
    ELSE LET keep(r) == astype_str(r.val) \in w.chosen IN SelectSeq(rows, keep)

\* every value the selectbox, the slider and the multiselect can return for a table
WidgetValues(rows) ==
    {DefaultWidgets}
    \cup (IF is_numeric_dtype(rows)
          THEN {[filter_col |-> "val", vmin |-> a, vmax |-> b, chosen |-> {}] :
                    a \in column_min(rows)..column_max(rows),
                    b \in column_min(rows)..column_max(rows)}
          ELSE {[filter_col |-> "val", vmin |-> 0, vmax |-> 0, chosen |-> c] :
                    c \in SUBSET multiselect_options(rows)})

----------------------------------------------------------------------------
(* What a run of the script shows *)

NoMessage == [prefix |-> "", reason |-> NoErr]
Message(e) == [prefix |-> "Failed to load layer: ", reason |-> e]

BlankUi == [error |-> NoMessage, warning |-> FALSE, success |-> FALSE, table |-> NoGdf]

\* error_ui of a handler that does not stop after st.error and goes on to the
\* empty-layer warning
error_ui_no_stop(e) == [BlankUi EXCEPT !.error = Message(e), !.warning = TRUE]

\* except Exception as e: st.error(...); st.stop()
error_ui(e) == [BlankUi EXCEPT !.error = Message(e)]
\* st.warning("Layer loaded but empty."); st.stop()
warning_ui == [BlankUi EXCEPT !.warning = TRUE]
\* st.success(...)
success_ui == [BlankUi EXCEPT !.success = TRUE]

----------------------------------------------------------------------------
(* State machine *)

NoArgs == [source_type |-> "", url |-> <<>>, layer_id |-> None, typename |-> None]
Args(st, u, lid, tn) == [source_type |-> st, url |-> u, layer_id |-> lid, typename |-> tn]

Init ==
    /\ pc = "idle"
    /\ args = NoArgs
    /\ query_url = NoUrl
    /\ obj = NoObj
    /\ gdf = NoGdf
    /\ err = NoErr
    /\ debug = EmptyDebug
    /\ url_cache = {}
    /\ gdf_cache = {}
    /\ layer_cache = {}
    /\ ui = BlankUi
    /\ filtered = NoGdf
    /\ widgets = DefaultWidgets
    /\ loads = 0
    /\ http_log = <<>>
    /\ steps = <<>>
    /\ last_built = EmptyDebug

\* the sidebar: the layer id and the typename inputs exist only for their kind
sidebar_layer_ids(st, u) ==
    IF st = ArcGIS /\ endswith(lower(rstrip(u, "/")), S_featureserver)
    THEN LayerIdInputs ELSE {None}
sidebar_typenames(st) == IF st = OGCWFS THEN TypenameInputs ELSE {None}

\* a run of the script starts: load_layer(a) is called through its memo table
Begin(a) ==
    /\ args' = a
    /\ loads' = loads + 1
    /\ query_url' = NoUrl
    /\ obj' = NoObj
    /\ err' = NoErr
    /\ steps' = <<>>
    /\ ui' = BlankUi
    /\ filtered' = NoGdf
    /\ widgets' = DefaultWidgets
    /\ IF Has(layer_cache, a)
       THEN gdf' = Get(layer_cache, a) /\ pc' = "handler"
       ELSE gdf' = NoGdf /\ pc' = "load_layer"
    /\ UNCHANGED <<debug, url_cache, gdf_cache, layer_cache, http_log, last_built>>

\* the user fills the sidebar and clicks "Load layer"
LoadBtn ==
    /\ pc = "idle"
    /\ loads < MaxLoads
    /\ \E st \in SourceTypes, u \in Urls :
         \E lid \in sidebar_layer_ids(st, u), tn \in sidebar_typenames(st) :
            Begin(Args(st, u, lid, tn))

\* load_layer called with any arguments its signature allows
CallLoadLayer ==
    /\ pc = "idle"
    /\ loads < MaxCalls
    /\ \E st \in SourceTypes \cup {"Shapefile"}, u \in CallUrls :
         \E lid \in LayerIdInputs \cup {None}, tn \in TypenameInputs \cup {None} :
            Begin(Args(st, u, lid, tn))

\* load_layer up to the call of load_geojson_from_url
LoadLayerBuild ==
    /\ pc = "load_layer"
    /\ steps' = Append(steps, "validate")
    /\ IF load_layer_raises(args) # NoErr
       THEN /\ err' = load_layer_raises(args)
            /\ pc' = "handler"
            /\ UNCHANGED <<query_url, last_built>>
       ELSE /\ query_url' = load_layer_query_url(args)
            /\ last_built' = record_debug(last_built, args.source_type, query_url')
            /\ pc' = "fetch"
            /\ err' = err
    /\ UNCHANGED <<args, obj, gdf, debug, url_cache, gdf_cache, layer_cache,
                   ui, filtered, widgets, loads, http_log>>

\* url_cache_put of an undecorated load_geojson_from_url: nothing is kept
url_cache_put_nothing(cache, url, body) == cache

\* fetch_failed_pc of a loader that tries the request again
fetch_failed_pc_retry == "fetch"

\* @st.cache_data on load_geojson_from_url: the returned body is kept under its URL
url_cache_put(cache, url, body) == Put(cache, url, body)

\* where control goes when requests.get or raise_for_status raises
fetch_failed_pc == "handler"

LoadGeojsonFromUrl ==
    /\ pc = "fetch"
    /\ IF Has(url_cache, query_url)
       THEN /\ obj' = Get(url_cache, query_url)
            /\ steps' = Append(steps, "cache")
            /\ pc' = "normalize"
            /\ UNCHANGED <<err, url_cache, http_log>>
       ELSE \E r \in Responses :
            /\ http_log' = Append(http_log, [url |-> query_url, ok |-> r.ok, body |-> r.body])
            /\ IF r.ok
               THEN /\ obj' = r.body
                    /\ url_cache' = url_cache_put(url_cache, query_url, r.body)
                    /\ steps' = Append(steps, "GET:ok")
                    /\ pc' = "normalize"
                    /\ err' = err
               ELSE /\ err' = r.reason
                    /\ steps' = Append(steps, "GET:failed")
                    /\ pc' = fetch_failed_pc
                    /\ UNCHANGED <<obj, url_cache>>
    /\ UNCHANGED <<args, query_url, gdf, debug, gdf_cache, layer_cache,
                   ui, filtered, widgets, loads, last_built>>

\* load_layer after the fetch: the Debug Trace entry, then the normalizer
LoadLayerNormalize ==
    /\ pc = "normalize"
    /\ debug' = record_debug(debug, args.source_type, query_url)
    /\ steps' = Append(steps, "normalize")
    /\ \E g \in normalize_outcomes(gdf_cache, obj) :
         IF g = RaisedGdf
         THEN /\ err' = NormalizationError
              /\ UNCHANGED <<gdf, gdf_cache, layer_cache>>
         ELSE /\ gdf' = g
              /\ gdf_cache' = Put(gdf_cache, obj, g)
              /\ layer_cache' = Put(layer_cache, args, g)
              /\ err' = err
    /\ pc' = "handler"
    /\ UNCHANGED <<args, query_url, obj, url_cache, ui, filtered, widgets,
                   loads, http_log, last_built>>

\* the load button handler after load_layer returned or raised
Report ==
    /\ pc = "handler"
    /\ IF err # NoErr
       THEN ui' = error_ui(err) /\ pc' = "idle"
       ELSE IF gdf_empty(gdf)
       THEN ui' = warning_ui /\ pc' = "idle"
       ELSE ui' = success_ui /\ pc' = "filter"
    /\ UNCHANGED <<args, query_url, obj, gdf, err, debug, url_cache, gdf_cache,
                   layer_cache, filtered, widgets, loads, http_log, steps, last_built>>

\* filtered = gdf.copy(), the filter, and the attribute table of the filtered copy
FilterBlock ==
    /\ pc = "filter"
    /\ filtered' = [gdf EXCEPT !.rows = apply_filter(gdf.rows, widgets)]
    /\ ui' = [ui EXCEPT !.table = filtered']
    /\ pc' = "idle"
    /\ UNCHANGED <<args, query_url, obj, gdf, err, debug, url_cache, gdf_cache,
                   layer_cache, widgets, loads, http_log, steps, last_built>>

Next == LoadBtn \/ LoadLayerBuild \/ LoadGeojsonFromUrl \/ LoadLayerNormalize
            \/ Report \/ FilterBlock

Spec == Init /\ [][Next]_vars

\* load_layer over its whole signature
NextLoadLayer == CallLoadLayer \/ LoadLayerBuild \/ LoadGeojsonFromUrl
                    \/ LoadLayerNormalize \/ Report \/ FilterBlock

SpecLoadLayer == Init /\ [][NextLoadLayer]_vars

----------------------------------------------------------------------------
(* The normalizer on every bounded document: the state right after the     *)
(* server has answered a GeoJSON load of U_layer with the document         *)

InitNorm ==
    /\ pc = "normalize"
    /\ args = Args(GeoJSON, U_layer, None, None)
    /\ query_url = U_layer
    /\ obj \in Objs \cup Bodies
    /\ gdf = NoGdf
    /\ err = NoErr
    /\ debug = EmptyDebug
    /\ url_cache = {<<U_layer, obj>>}
    /\ gdf_cache = {}
    /\ layer_cache = {}
    /\ ui = BlankUi
    /\ filtered = NoGdf
    /\ widgets = DefaultWidgets
    /\ loads = 1
    /\ http_log = <<[url |-> U_layer, ok |-> TRUE, body |-> obj]>>
    /\ steps = <<"validate", "GET:ok">>
    /\ last_built = EmptyDebug

NextNorm == LoadLayerNormalize \/ Report \/ FilterBlock

SpecNorm == InitNorm /\ [][NextNorm]_vars

(* The filter block on every bounded table and every widget value: the     *)
(* state right after a GeoJSON load of U_layer has succeeded               *)

FilterValues == {Vnull, Vnum(1), Vnum(2), Vnum(3), Vstr("a"), Vstr("1")}
FilterRows == {Row("Polygon", v) : v \in FilterValues}
FilterTables == BoundedSeq(FilterRows, MaxRows) \ {<<>>}

InitFilter ==
    /\ pc = "filter"
    /\ args = Args(GeoJSON, U_layer, None, None)
    /\ query_url = U_layer
    /\ \E rows \in FilterTables :
          /\ obj = Json(TRUE, TRUE, CRS_none, rows)
          /\ gdf = Gdf(EPSG4326, FALSE, rows)
          /\ widgets \in WidgetValues(rows)
    /\ err = NoErr
    /\ debug = EmptyDebug
    /\ url_cache = {<<U_layer, obj>>}
    /\ gdf_cache = {<<obj, gdf>>}
    /\ layer_cache = {<<args, gdf>>}
    /\ ui = success_ui
    /\ filtered = NoGdf
    /\ loads = 1
    /\ http_log = <<[url |-> U_layer, ok |-> TRUE, body |-> obj]>>
    /\ steps = <<"validate", "GET:ok", "normalize">>
    /\ last_built = EmptyDebug

NextFilter == FilterBlock

SpecFilter == InitFilter /\ [][NextFilter]_vars

----------------------------------------------------------------------------
(* Properties *)

\* the URLs of the input domains that end with the FeatureServer root once their
\* trailing slashes are removed, whatever the case of the letters
RootUrls == {U_root, U_ROOT_slashes}
\* the URLs of the input domains that contain a question mark
UrlsWithQuery == {U_wfs_q}

\* t is u without its trailing slashes
IsTrimOf(t, u) ==
    \E n \in 0..Len(u) :
        /\ t = SubSeq(u, 1, n)
        /\ \A i \in (n + 1)..Len(u) : u[i] = "/"
        /\ n = 0 \/ u[n] # "/"
Trimmed(u) == CHOOSE t \in {SubSeq(u, 1, n) : n \in 0..Len(u)} : IsTrimOf(t, u)

\* rows is sub, some rows removed and the order kept
IsSubsequence(sub, rows) ==
    \E f \in [1..Len(sub) -> 1..Len(rows)] :
        /\ \A i \in 1..Len(sub) : sub[i] = rows[f[i]]
        /\ \A i, j \in 1..Len(sub) : i < j => f[i] < f[j]

Expected_arcgis_suffix == <<"/","q","u","e","r","y","?","w","h","e","r","e","=","1","%","3","D","1","&","o","u","t","F","i","e","l","d","s","=","*","&","f","=","g","e","o","j","s","o","n","&","o","u","t","S","R","=","4","3","2","6","&","r","e","t","u","r","n","G","e","o","m","e","t","r","y","=","t","r","u","e">>
Expected_arcgis_example == <<"h","t","t","p","s",":","/","/","x","/","F","e","a","t","u","r","e","S","e","r","v","e","r","/","3","/","q","u","e","r","y","?","w","h","e","r","e","=","1","%","3","D","1","&","o","u","t","F","i","e","l","d","s","=","*","&","f","=","g","e","o","j","s","o","n","&","o","u","t","S","R","=","4","3","2","6","&","r","e","t","u","r","n","G","e","o","m","e","t","r","y","=","t","r","u","e">>
Expected_wfs_head == <<"s","e","r","v","i","c","e","=","W","F","S","&","v","e","r","s","i","o","n","=","2",".","0",".","0","&","r","e","q","u","e","s","t","=","G","e","t","F","e","a","t","u","r","e","&","t","y","p","e","N","a","m","e","=">>
Expected_wfs_tail == <<"&","o","u","t","p","u","t","F","o","r","m","a","t","=","a","p","p","l","i","c","a","t","i","o","n","/","j","s","o","n","&","s","r","s","N","a","m","e","=","E","P","S","G",":","4","3","2","6">>
Expected_wfs_example == <<"h","t","t","p","s",":","/","/","x","/","w","f","s","?","&","s","e","r","v","i","c","e","=","W","F","S","&","v","e","r","s","i","o","n","=","2",".","0",".","0","&","r","e","q","u","e","s","t","=","G","e","t","F","e","a","t","u","r","e","&","t","y","p","e","N","a","m","e","=","c","o","u","n","t","r","i","e","s","&","o","u","t","p","u","t","F","o","r","m","a","t","=","a","p","p","l","i","c","a","t","i","o","n","/","j","s","o","n","&","s","r","s","N","a","m","e","=","E","P","S","G",":","4","3","2","6">>

\* load_layer has run its parameter checks in this attempt
Validated == steps # <<>>

----------------------------------------------------------------------------
\* C1: a load whose required parameter is absent fails with the MissingParameter
\* ValueError before any request is made: kind ArcGIS FeatureServer, a URL ending
\* with the FeatureServer root (trailing slashes removed, any letter case) and a
\* layer id that is None or empty; kind OGC WFS, any URL, and a type name that is
\* None or empty. The handler then shows that failure.
C1_MissingParameter ==
    Validated =>
        /\ (args.source_type = ArcGIS /\ args.url \in RootUrls
                /\ args.layer_id \in {None, <<>>})
            => /\ err = MissingLayerId
               /\ query_url = NoUrl /\ obj = NoObj /\ gdf = NoGdf
               /\ pc = "idle" => ui.error = Message(MissingLayerId)
        /\ (args.source_type = OGCWFS /\ args.typename \in {None, <<>>})
            => /\ err = MissingTypename
               /\ query_url = NoUrl /\ obj = NoObj /\ gdf = NoGdf
               /\ pc = "idle" => ui.error = Message(MissingTypename)

C1_Witness ==
    /\ pc = "idle"
    /\ args = Args(ArcGIS, U_ROOT_slashes, <<>>, None)
    /\ ui.error = Message(MissingLayerId)

\* C2 as stated: the ArcGIS query URL is layer_url + the fixed query string, where
\* layer_url is the given base URL + "/" + layer id when the base URL ends with the
\* FeatureServer root, and the given base URL itself otherwise.
C2_QueryFromGivenUrl ==
    (args.source_type = ArcGIS /\ query_url # NoUrl) =>
        query_url =
            (IF args.url \in RootUrls THEN args.url \o <<"/">> \o args.layer_id ELSE args.url)
                \o Expected_arcgis_suffix

\* C2 amended: the ArcGIS query URL is layer_url + the fixed query string, where
\* layer_url is built from the base URL with all its trailing slashes removed:
\* that trimmed URL + "/" + layer id when it ends with the FeatureServer root, and
\* the trimmed URL itself otherwise; in the second case no layer id is required.
\* https://x/FeatureServer with layer id "3" gives the URL of the example.
C2_QueryFromTrimmedUrl ==
    /\ (args.source_type = ArcGIS /\ query_url # NoUrl) =>
          query_url =
             (IF args.url \in RootUrls
              THEN Trimmed(args.url) \o <<"/">> \o args.layer_id
              ELSE Trimmed(args.url))
                 \o Expected_arcgis_suffix
    /\ (args.source_type = ArcGIS /\ args.url \notin RootUrls /\ Validated) =>
          err # MissingLayerId /\ query_url # NoUrl
    /\ (args.source_type = ArcGIS /\ args.url = U_root /\ args.layer_id = <<"3">>
            /\ Validated) =>
          query_url = Expected_arcgis_example

C2_Witness ==
    /\ args = Args(ArcGIS, U_ROOT_slashes, <<"3">>, None)
    /\ pc = "fetch"
    /\ query_url = S_https_x \o S_FEATURESERVER \o <<"/", "3">> \o Expected_arcgis_suffix

\* C3: for kind OGC WFS with type name T the query URL is the base URL, then "&"
\* if the base URL contains "?" and "?" otherwise, then
\* service=WFS&version=2.0.0&request=GetFeature&typeName=T&outputFormat=application/json&srsName=EPSG:4326
\* in that key order.
C3_WfsQuery ==
    /\ (args.source_type = OGCWFS /\ query_url # NoUrl) =>
          query_url =
             args.url \o (IF args.url \in UrlsWithQuery THEN <<"&">> ELSE <<"?">>)
                 \o Expected_wfs_head \o args.typename \o Expected_wfs_tail
    /\ (args.source_type = OGCWFS /\ ~Falsy(args.typename) /\ Validated) =>
          query_url # NoUrl

C3_Witness ==
    /\ args = Args(OGCWFS, U_wfs_q, None, S_countries)
    /\ pc = "fetch"
    /\ query_url = Expected_wfs_example

\* C4: after any sequence of loads the Debug Trace entry of a kind holds the last
\* query URL constructed for that kind: every load that constructs a query URL for
\* ArcGIS FeatureServer or OGC WFS records it under the key of its kind.
C4_DebugHoldsLastBuilt ==
    pc = "idle" => debug = last_built

\* C5: every feature of a table returned by a load is in EPSG:4326.
C5_ReturnedTableIn4326 ==
    (gdf.tag = "gdf" /\ pc \in {"handler", "filter", "idle"}) =>
        \A i \in 1..Len(gdf.rows) : gdf.crs = EPSG4326

\* C6: the table the normalizer returns has no row whose geometry is null or
\* empty and has every other row of the input, in the input's order and with its
\* attributes; one null geometry and two polygons give exactly two rows.
C6_DropsExactlyInvalid ==
    (gdf.tag = "gdf" /\ pc = "handler" /\ Len(steps) > 0 /\ steps[Len(steps)] = "normalize") =>
        /\ \A i \in 1..Len(gdf.rows) : gdf.rows[i].geometry \notin {"null", "empty"}
        /\ Len(gdf.rows) =
              Cardinality({i \in 1..Len(obj.rows) : obj.rows[i].geometry \notin {"null", "empty"}})
        /\ IsSubsequence(gdf.rows, obj.rows)
        /\ obj = FC_null_and_two => Len(gdf.rows) = 2

C6_Witness ==
    /\ pc = "handler"
    /\ obj = FC_null_and_two
    /\ gdf.tag = "gdf"
    /\ Len(gdf.rows) = 2

\* C7: once a URL has been fetched successfully no later HTTP GET is issued for
\* it, and every fetch of it returns the value of that one successful GET.
C7_FetchMemoized ==
    /\ \A i, j \in 1..Len(http_log) :
          (i < j /\ http_log[i].ok) => http_log[j].url # http_log[i].url
    /\ pc = "normalize" =>
          \E i \in 1..Len(http_log) :
              /\ http_log[i].ok
              /\ http_log[i].url = query_url
              /\ http_log[i].body = obj

C7_Witness ==
    /\ pc = "normalize"
    /\ steps = <<"validate", "cache">>
    /\ \E i \in 1..Len(http_log) : http_log[i].ok /\ http_log[i].url = query_url

\* C8: a finished load attempt shows exactly one of: the message "Failed to load
\* layer: <reason>" and no table, for every exception (missing parameter, failed
\* or timed out request, normalization exception, unsupported kind); the
\* empty-layer warning and no table, for a load that returned zero features; the
\* success notice and the non-empty table.
C8_OneOutcome ==
    (pc = "idle" /\ loads > 0) =>
        /\ \/ /\ err # NoErr
              /\ ui = [error |-> Message(err), warning |-> FALSE, success |-> FALSE,
                       table |-> NoGdf]
           \/ /\ err = NoErr /\ gdf.tag = "gdf" /\ Len(gdf.rows) = 0
              /\ ui = [error |-> NoMessage, warning |-> TRUE, success |-> FALSE,
                       table |-> NoGdf]
           \/ /\ err = NoErr /\ gdf.tag = "gdf" /\ Len(gdf.rows) > 0
              /\ ui = [error |-> NoMessage, warning |-> FALSE, success |-> TRUE,
                       table |-> gdf]
        /\ args.source_type \notin {GeoJSON, ArcGIS, OGCWFS} => err = UnsupportedSource
        /\ (Len(steps) > 0 /\ steps[Len(steps)] = "GET:failed") => err \in {HTTPError, Timeout}
        /\ (obj # NoObj /\ ~obj.geo) => err = NormalizationError

C8_Witness ==
    /\ pc = "idle"
    /\ args.source_type = "Shapefile"
    /\ ui = [error |-> Message(UnsupportedSource), warning |-> FALSE, success |-> FALSE,
             table |-> NoGdf]

\* str(value) of each attribute value of the filter tables
StrOf(v) ==
    IF v = Vnum(1) \/ v = Vstr("1") THEN "1"
    ELSE IF v = Vnum(2) THEN "2"
    ELSE IF v = Vnum(3) THEN "3"
    ELSE IF v = Vstr("a") THEN "a"
    ELSE "None"

\* the column holds numbers, and possibly missing values, only
NumericColumn(rows) ==
    /\ \A i \in 1..Len(rows) : rows[i].val.t # "str"
    /\ \E i \in 1..Len(rows) : rows[i].val.t = "num"

\* C9: the filtered table is a subsequence of the normalized table; with a
\* numeric column and a range it holds only rows whose value lies within the
\* inclusive bounds, with a categorical column and a chosen set only rows whose
\* stringified value is in the set; the normalized table is left as it was.
C9_FilterSound ==
    (pc = "idle" /\ ui.success) =>
        /\ filtered.tag = "gdf" /\ filtered.crs = gdf.crs
        /\ IsSubsequence(filtered.rows, gdf.rows)
        /\ (widgets.filter_col = "val" /\ NumericColumn(gdf.rows)) =>
              \A i \in 1..Len(filtered.rows) :
                  /\ filtered.rows[i].val.t = "num"
                  /\ widgets.vmin <= filtered.rows[i].val.n
                  /\ filtered.rows[i].val.n <= widgets.vmax
        /\ (widgets.filter_col = "val" /\ ~NumericColumn(gdf.rows)) =>
              \A i \in 1..Len(filtered.rows) : StrOf(filtered.rows[i].val) \in widgets.chosen
        /\ gdf = Gdf(EPSG4326, FALSE, obj.rows)
        /\ gdf = Get(layer_cache, args)

C9_Witness ==
    /\ pc = "idle"
    /\ widgets.filter_col = "val"
    /\ NumericColumn(gdf.rows)
    /\ widgets.vmin = 2 /\ widgets.vmax = 2
    /\ Len(gdf.rows) = 3
    /\ Len(filtered.rows) = 1

\* the orders in which the steps of one load attempt can follow each other
AllowedSteps ==
    {<<>>, <<"validate">>,
     <<"validate", "GET:ok">>, <<"validate", "GET:failed">>, <<"validate", "cache">>,
     <<"validate", "GET:ok", "normalize">>, <<"validate", "cache", "normalize">>}

\* C10: one load attempt validates and builds the query URL, then issues at most
\* one HTTP GET, then normalizes; the normalizer runs only after the fetch has
\* returned a body, and a failed GET ends the attempt with its error, with no
\* normalization and no second GET.
C10_StepOrder ==
    /\ steps \in AllowedSteps
    /\ Len(http_log) <= loads
    /\ (Len(steps) > 0 /\ steps[Len(steps)] = "normalize") => obj # NoObj
    /\ (Len(steps) > 0 /\ steps[Len(steps)] = "GET:failed") =>
          /\ pc \in {"handler", "idle"}
          /\ err \in {HTTPError, Timeout}
          /\ obj = NoObj /\ gdf = NoGdf

C10_Witness ==
    /\ pc = "idle"
    /\ steps = <<"validate", "GET:failed">>
    /\ ui.error = Message(Timeout)

====
